---- MODULE Spec2Model ----
(***************************************************************************)
(* Model of backend/src/packages/chaiNNer_standard/image/video_frames/     *)
(* load_video.py: the node function load_video_node (setup: open the       *)
(* container, resolve the frame rate, estimate the frame count) and the    *)
(* generator `iterator` it hands to Iterator.from_iter.                    *)
(*                                                                         *)
(* Python values:                                                          *)
(*   None            is the empty tuple <<>>                               *)
(*   Fraction(n, d)  is <<n, d>>  (d > 0, as Fraction normalises)          *)
(*   an int          is <<n>> where it may also be None                    *)
(*   a rounded fps   is <<c>>, c the value in hundredths (round(fps, 2))   *)
(***************************************************************************)
EXTENDS Integers, Sequences, FiniteSets, TLC

VARIABLES
    meta,           \* the container's metadata as the node reads it
    use_limit,      \* node input 1
    limit,          \* node input 2
    node,           \* position of load_video_node: "init", "ready", "raised"
    error,          \* the exception load_video_node raised, or "none"
    containerOpen,  \* the container returned by av.open is open
    closes,         \* number of times the container was closed
    fps,            \* the node's fps result
    frame_count,    \* the node's expected_length
    lists,          \* the heap of Python lists created by the generators
    naudio,         \* audio sub-frames decoded from the container so far
    ndemuxed,       \* packets pulled from the container so far
    gen             \* the generators created by the supplier `iterator`

vars == <<meta, use_limit, limit, node, error, containerOpen, closes, fps,
          frame_count, lists, naudio, ndemuxed, gen>>

-----------------------------------------------------------------------------
(* Bounds of the model *)

MaxPackets == 4
MaxFrames == 2
MaxLimit == 2
MaxMutations == 1

(* Numbers of the program *)

Million == 1000000
Hundred == 100

-----------------------------------------------------------------------------
(* Python values *)

None == <<>>

Truthy(x) == x # None /\ x[1] # 0

\* Python's `a or b`: a when a is truthy, b otherwise (whatever b is).
PyOr(a, b) == IF Truthy(a) THEN a ELSE b

Min(a, b) == IF a <= b THEN a ELSE b

\* round(n / d, 2), in hundredths: round half to even.
RoundCenti(n, d) ==
    LET q == (Hundred * n) \div d
        r == (Hundred * n) % d
    IN  IF 2 * r < d THEN q
        ELSE IF 2 * r > d THEN q + 1
        ELSE IF q % 2 = 0 THEN q ELSE q + 1

-----------------------------------------------------------------------------
(* Setup: the body of load_video_node *)

\* fps = codec_context.framerate or codec_context.rate
CodecFps(m) == PyOr(m.framerate, m.rate)

StreamRate_BaseFirst(m) == PyOr(PyOr(m.base_rate, m.guessed_rate), m.average_rate)

\* rate = average_rate or guessed_rate or base_rate
StreamRate(m) == PyOr(PyOr(m.average_rate, m.guessed_rate), m.base_rate)

\* if fps is None and rate is None: raise RuntimeError(...)
NoFps(m) == CodecFps(m) = None /\ StreamRate(m) = None

\* fps or (rate.as_integer_ratio()[0] / rate.as_integer_ratio()[1]) reads an
\* attribute of rate unless fps is truthy; rate None gives AttributeError.
RateDereferencedWhileNone(m) == ~Truthy(CodecFps(m)) /\ StreamRate(m) = None

\* fps = fps or (rate ratio); fps = round(fps, 2)
ResolveFps(m) ==
    LET f == PyOr(CodecFps(m), StreamRate(m))
    IN  <<RoundCenti(f[1], f[2])>>

\* int(duration * fps) with duration = container.duration / 1000000.
\* The product is split to stay within TLC's 32-bit integers:
\* floor(us * c / 10^8) = floor((whole * c + floor(frac * c / 10^6)) / 100).
EstimateFrames(us, c) ==
    LET whole == us \div Million
        frac == us % Million
    IN  (whole * c + (frac * c) \div Million) \div Hundred

\* frame_count = encoded_frame_count; if None or 0: int(duration * fps)
FrameCount(m, f) ==
    IF m.encoded_frame_count = None \/ m.encoded_frame_count[1] = 0
    THEN EstimateFrames(m.duration[1], f[1])
    ELSE m.encoded_frame_count[1]

CapFrameCount_Always(fc, ul, l) == Min(fc, l)

\* if use_limit: frame_count = min(frame_count, limit)
CapFrameCount(fc, ul, l) == IF ul THEN Min(fc, l) ELSE fc

\* The exception the body raises, "none" when it returns, in line order.
SetupError(m) ==
    IF ~m.openable THEN "OpenError"
    ELSE IF NoFps(m) THEN "RuntimeError"
    ELSE IF RateDereferencedWhileNone(m) THEN "AttributeError"
    ELSE IF m.duration = None THEN "TypeError"
    ELSE IF ~m.has_audio THEN "IndexError"
    ELSE "none"

-----------------------------------------------------------------------------
(* Inputs *)

RateVals == {None, <<0, 1>>, <<24, 1>>, <<30000, 1001>>}
CountVals == {None, <<0>>, <<2>>, <<5>>}
DurationVals == {None, <<10000000>>, <<1500000>>}

AllMeta ==
    [openable : BOOLEAN, framerate : RateVals, rate : RateVals,
     average_rate : RateVals, guessed_rate : RateVals, base_rate : RateVals,
     encoded_frame_count : CountVals, duration : DurationVals,
     has_audio : BOOLEAN]

\* The metadata the iteration is explored under: a file that sets up, one
\* without any rate, one that does not open; with and without an encoded
\* frame count.
IterMeta ==
    {m \in AllMeta :
        /\ m.rate = None /\ m.average_rate = None /\ m.guessed_rate = None
        /\ m.base_rate = None /\ m.encoded_frame_count \in {None, <<2>>}
        /\ m.duration = <<10000000>> /\ m.has_audio
        /\ m.framerate \in {None, <<24, 1>>}
        /\ (m.framerate = None => m.openable)}

Iters == {1}

NoGen ==
    [pc |-> "none", index |-> 0, audio_arr |-> 0, todo |-> <<>>,
     decoded |-> <<>>, out |-> <<>>,
     packet |-> [stream |-> "none", dts |-> FALSE, decode_raised |-> FALSE]]

InitWith(metas) ==
    /\ meta \in metas
    /\ use_limit \in BOOLEAN
    /\ limit \in 1..MaxLimit
    /\ node = "init"
    /\ error = "none"
    /\ containerOpen = FALSE
    /\ closes = 0
    /\ fps = None
    /\ frame_count = None
    /\ lists = <<>>
    /\ naudio = 0
    /\ ndemuxed = 0
    /\ gen = [g \in Iters |-> NoGen]

Init == InitWith(IterMeta)

InitSetup == InitWith(AllMeta)

-----------------------------------------------------------------------------
(* load_video_node, lines 63-100 and 124-129 *)

LoadVideoNode ==
    /\ node = "init"
    /\ LET e == SetupError(meta)
           f == ResolveFps(meta)
       IN  /\ error' = e
           /\ node' = IF e = "none" THEN "ready" ELSE "raised"
           /\ containerOpen' = meta.openable
           /\ fps' = IF e = "none" THEN f ELSE None
           /\ frame_count' =
                IF e = "none"
                THEN <<CapFrameCount(FrameCount(meta, f), use_limit, limit)>>
                ELSE None
    /\ UNCHANGED <<meta, use_limit, limit, closes, lists, naudio, ndemuxed, gen>>

-----------------------------------------------------------------------------
(* The generator `iterator`, lines 102-122 *)

Running(g) == gen[g].pc \in {"demux", "decode"}

\* One thread: control is with the consumer only while no generator runs.
Idle == \A g \in DOMAIN gen : ~Running(g)

\* The frames packet.decode() returns: n frames of the packet's stream, the
\* audio ones numbered in decode order.
DecodedFrames(stream, n) ==
    [j \in 1..n |->
        [stream |-> stream, id |-> IF stream = "audio" THEN naudio + j ELSE 0]]

NextIndex_Stuck(i) == i

\* index += 1
NextIndex(i) == i + 1

ClearedAudio_Kept(old, fresh) == old

\* audio_arr = []  rebinds the name to a fresh list
ClearedAudio(old, fresh) == fresh

NoDts_Never(has_dts) == FALSE

\* if packet.dts is None: continue
NoDts(has_dts) == ~has_dts

LimitReached_Never(s) == FALSE

LimitReached_WithoutFlag(s) == s.index >= limit

\* if use_limit and index >= limit: break
LimitReached(s) == use_limit /\ s.index >= limit

LoopPc_Inner(todo) == "decode"

\* Where the loops go on: the next frame of `for frame in packet.decode()`
\* while one is left, else the next packet of the demux loop.
LoopPc(todo) == IF todo = <<>> THEN "demux" ELSE "decode"

\* The consumer obtains a generator from the supplier.
CallSupplier(g) ==
    /\ node = "ready"
    /\ Idle
    /\ gen[g].pc = "none"
    /\ gen' = [gen EXCEPT ![g].pc = "unstarted"]
    /\ UNCHANGED <<meta, use_limit, limit, node, error, containerOpen, closes,
                   fps, frame_count, lists, naudio, ndemuxed>>

\* First next(): index = 0; audio_arr = []; enter the packet loop.
Start(g) ==
    /\ Idle
    /\ gen[g].pc = "unstarted"
    /\ lists' = Append(lists, <<>>)
    /\ gen' = [gen EXCEPT ![g].pc = "demux", ![g].index = 0,
                          ![g].audio_arr = Len(lists) + 1]
    /\ UNCHANGED <<meta, use_limit, limit, node, error, containerOpen, closes,
                   fps, frame_count, naudio, ndemuxed>>

\* A later next(): continue after the yield with index += 1; audio_arr = [].
Resume(g) ==
    /\ Idle
    /\ gen[g].pc = "yielded"
    /\ lists' = Append(lists, <<>>)
    /\ gen' = [gen EXCEPT
                ![g].index = NextIndex(@),
                ![g].audio_arr = ClearedAudio(@, Len(lists) + 1),
                ![g].pc = LoopPc(gen[g].todo)]
    /\ UNCHANGED <<meta, use_limit, limit, node, error, containerOpen, closes,
                   fps, frame_count, naudio, ndemuxed>>

\* for packet in container.demux(...): the stream has no further packet.
DemuxEnd(g) ==
    /\ gen[g].pc = "demux"
    /\ gen' = [gen EXCEPT ![g].pc = "done"]
    /\ UNCHANGED <<meta, use_limit, limit, node, error, containerOpen, closes,
                   fps, frame_count, lists, naudio, ndemuxed>>

\* container.demux raises.
DemuxError(g) ==
    /\ gen[g].pc = "demux"
    /\ gen' = [gen EXCEPT ![g].pc = "error"]
    /\ UNCHANGED <<meta, use_limit, limit, node, error, containerOpen, closes,
                   fps, frame_count, lists, naudio, ndemuxed>>

DecodeFailurePc_Skip == "demux"

\* packet.decode() raises: nothing catches it, the generator ends with it.
DecodeFailurePc == "error"

\* One packet is pulled: lines 107-115, up to and including packet.decode().
DemuxPacket(g) ==
    /\ gen[g].pc = "demux"
    /\ ndemuxed < MaxPackets
    /\ ndemuxed' = ndemuxed + 1
    /\ \E stream \in {"video", "audio"}, has_dts \in BOOLEAN,
          decodes \in BOOLEAN, n \in 0..MaxFrames :
          IF NoDts(has_dts)
          THEN /\ gen' = [gen EXCEPT
                            ![g].packet = [stream |-> stream, dts |-> has_dts,
                                           decode_raised |-> FALSE]]
               /\ UNCHANGED naudio
          ELSE IF LimitReached(gen[g])
          THEN /\ gen' = [gen EXCEPT
                            ![g].packet = [stream |-> stream, dts |-> has_dts,
                                           decode_raised |-> FALSE],
                            ![g].pc = "done"]
               /\ UNCHANGED naudio
          ELSE IF ~decodes
          THEN /\ gen' = [gen EXCEPT
                            ![g].packet = [stream |-> stream, dts |-> has_dts,
                                           decode_raised |-> TRUE],
                            ![g].pc = DecodeFailurePc]
               /\ UNCHANGED naudio
          ELSE /\ gen' = [gen EXCEPT
                            ![g].packet = [stream |-> stream, dts |-> has_dts,
                                           decode_raised |-> FALSE],
                            ![g].todo = DecodedFrames(stream, n),
                            ![g].decoded = @ \o DecodedFrames(stream, n),
                            ![g].pc = LoopPc(DecodedFrames(stream, n))]
               /\ naudio' = IF stream = "audio" THEN naudio + n ELSE naudio
    /\ UNCHANGED <<meta, use_limit, limit, node, error, containerOpen, closes,
                   fps, frame_count, lists>>

\* One turn of `for frame in packet.decode()` on a video frame: the yield.
YieldVideo(g) ==
    /\ gen[g].pc = "decode"
    /\ gen[g].todo # <<>>
    /\ Head(gen[g].todo).stream = "video"
    /\ gen' = [gen EXCEPT
                ![g].out = Append(@, [index |-> gen[g].index,
                                      audio |-> gen[g].audio_arr,
                                      snap |-> lists[gen[g].audio_arr]]),
                ![g].todo = Tail(@),
                ![g].pc = "yielded"]
    /\ UNCHANGED <<meta, use_limit, limit, node, error, containerOpen, closes,
                   fps, frame_count, lists, naudio, ndemuxed>>

Accumulate_NotUnderLimit(list, id) == IF use_limit THEN list ELSE Append(list, id)

\* audio_arr.append(frame)
Accumulate(list, id) == Append(list, id)

\* One turn of the loop on an audio frame: audio_arr.append(frame).
AppendAudio(g) ==
    /\ gen[g].pc = "decode"
    /\ gen[g].todo # <<>>
    /\ Head(gen[g].todo).stream = "audio"
    /\ lists' = [lists EXCEPT ![gen[g].audio_arr] =
                    Accumulate(@, Head(gen[g].todo).id)]
    /\ gen' = [gen EXCEPT
                ![g].todo = Tail(@),
                ![g].pc = LoopPc(Tail(gen[g].todo))]
    /\ UNCHANGED <<meta, use_limit, limit, node, error, containerOpen, closes,
                   fps, frame_count, naudio, ndemuxed>>

\* The consumer stops requesting elements: the generator is dropped while
\* suspended; no finally clause runs.
Abandon(g) ==
    /\ Idle
    /\ gen[g].pc \in {"unstarted", "yielded"}
    /\ gen' = [gen EXCEPT ![g].pc = "abandoned"]
    /\ UNCHANGED <<meta, use_limit, limit, node, error, containerOpen, closes,
                   fps, frame_count, lists, naudio, ndemuxed>>

\* The consumer changes a list it was handed: the tuple of line 118 holds the
\* list audio_arr itself, not a copy. It appends an element of its own (0),
\* to at most MaxMutations lists.
ConsumerMutates(g) ==
    /\ Idle
    /\ Cardinality({i \in 1..Len(lists) :
            \E j \in 1..Len(lists[i]) : lists[i][j] = 0}) < MaxMutations
    /\ \E k \in 1..Len(gen[g].out) :
        LET id == gen[g].out[k].audio
        IN  /\ \A i \in 1..Len(lists[id]) : lists[id][i] # 0
            /\ lists' = [lists EXCEPT ![id] = Append(@, 0)]
    /\ UNCHANGED <<meta, use_limit, limit, node, error, containerOpen, closes,
                   fps, frame_count, naudio, ndemuxed, gen>>

\* The elements the loop body of lines 113-122 emits for a sequence of
\* decoded frames when no limit stops it, from the given index and
\* accumulator contents.
RECURSIVE UnlimitedRun(_, _, _)
UnlimitedRun(frames, index, audio) ==
    IF frames = <<>> THEN <<>>
    ELSE IF Head(frames).stream = "video"
         THEN <<[index |-> index, audio |-> audio]>>
                \o UnlimitedRun(Tail(frames), index + 1, <<>>)
         ELSE UnlimitedRun(Tail(frames), index, Append(audio, Head(frames).id))

Next ==
    \/ LoadVideoNode
    \/ \E g \in DOMAIN gen : CallSupplier(g)
    \/ \E g \in DOMAIN gen : Start(g)
    \/ \E g \in DOMAIN gen : Resume(g)
    \/ \E g \in DOMAIN gen : DemuxEnd(g)
    \/ \E g \in DOMAIN gen : DemuxError(g)
    \/ \E g \in DOMAIN gen : DemuxPacket(g)
    \/ \E g \in DOMAIN gen : YieldVideo(g)
    \/ \E g \in DOMAIN gen : AppendAudio(g)
    \/ \E g \in DOMAIN gen : Abandon(g)

Spec == Init /\ [][Next]_vars

NextSetup == LoadVideoNode

SpecSetup == InitSetup /\ [][NextSetup]_vars

\* A consumer that also changes the lists it is handed, on a file that sets
\* up.
InitConsumer ==
    InitWith({m \in IterMeta :
                m.openable /\ m.framerate # None /\ m.encoded_frame_count = None})

NextConsumer ==
    \/ Next
    \/ \E g \in DOMAIN gen : ConsumerMutates(g)

SpecConsumer == InitConsumer /\ [][NextConsumer]_vars

\* A consumer that keeps requesting elements: it never drops the generator.
\* The generator's own steps run on once next() has been called, and the
\* consumer's next call comes: weak fairness on every step.
NextLive ==
    \/ LoadVideoNode
    \/ \E g \in DOMAIN gen : CallSupplier(g)
    \/ \E g \in DOMAIN gen : Start(g)
    \/ \E g \in DOMAIN gen : Resume(g)
    \/ \E g \in DOMAIN gen : DemuxEnd(g)
    \/ \E g \in DOMAIN gen : DemuxError(g)
    \/ \E g \in DOMAIN gen : DemuxPacket(g)
    \/ \E g \in DOMAIN gen : YieldVideo(g)
    \/ \E g \in DOMAIN gen : AppendAudio(g)

SpecLive == Init /\ [][NextLive]_vars /\ WF_vars(NextLive)

\* The supplier `iterator` closes over the one container of line 66: every
\* call of it gives a generator over that container. Two calls:
SharedIters == {1, 2}

InitShared ==
    /\ meta \in {m \in IterMeta : m.openable /\ m.framerate # None}
    /\ use_limit = FALSE
    /\ limit \in 1..MaxLimit
    /\ node = "init"
    /\ error = "none"
    /\ containerOpen = FALSE
    /\ closes = 0
    /\ fps = None
    /\ frame_count = None
    /\ lists = <<>>
    /\ naudio = 0
    /\ ndemuxed = 0
    /\ gen = [g \in SharedIters |-> NoGen]

\* The consumer advances both generators in any order, to their ends.
NextShared ==
    \/ LoadVideoNode
    \/ \E g \in DOMAIN gen : CallSupplier(g)
    \/ \E g \in DOMAIN gen : Start(g)
    \/ \E g \in DOMAIN gen : Resume(g)
    \/ \E g \in DOMAIN gen : DemuxEnd(g)
    \/ \E g \in DOMAIN gen : DemuxError(g)
    \/ \E g \in DOMAIN gen : DemuxPacket(g)
    \/ \E g \in DOMAIN gen : YieldVideo(g)
    \/ \E g \in DOMAIN gen : AppendAudio(g)

SpecShared == InitShared /\ [][NextShared]_vars

-----------------------------------------------------------------------------
(* Operators the properties are stated with *)

Gens == DOMAIN gen

\* The frames of s.decoded the loop body has been run on.
Processed(s) == SubSeq(s.decoded, 1, Len(s.decoded) - Len(s.todo))

\* The ids of the audio sub-frames of a frame sequence, in order.
AudioIds(d) ==
    LET a == SelectSeq(d, LAMBDA f : f.stream = "audio")
    IN  [k \in 1..Len(a) |-> a[k].id]

\* The audio of a frame sequence cut at its video frames: segment k is the
\* audio before the k-th video frame and after the one before it, the last
\* segment the audio after the last video frame.
RECURSIVE Split(_, _)
Split(d, cur) ==
    IF d = <<>> THEN <<cur>>
    ELSE IF Head(d).stream = "video"
         THEN <<cur>> \o Split(Tail(d), <<>>)
         ELSE Split(Tail(d), Append(cur, Head(d).id))

\* The attached audio lists of the emitted frames, concatenated.
RECURSIVE ConcatSnaps(_)
ConcatSnaps(out) ==
    IF out = <<>> THEN <<>> ELSE Head(out).snap \o ConcatSnaps(Tail(out))

Candidates(m) ==
    <<m.framerate, m.rate, m.average_rate, m.guessed_rate, m.base_rate>>

HasUsableRate(m) == \E k \in 1..5 : Truthy(Candidates(m)[k])

Rounded(x) == <<RoundCenti(x[1], x[2])>>

-----------------------------------------------------------------------------
(* C1: the opened container is closed exactly once: after the iterator
   exhausts the packets, and when the consumer stops requesting elements
   (also before the first one); never twice, never left open at the end. *)
C1_ClosedExactlyOnce ==
    /\ closes <= 1
    /\ \A g \in Gens :
        gen[g].pc \in {"done", "abandoned"} => closes = 1 /\ ~containerOpen

(* C2: when a fatal error after the open reaches the caller (the rate
   resolution failure of setup) or the consumer (a demux or decode error),
   the container is already released. *)
C2_ReleasedWhenErrorSurfaces ==
    /\ node = "raised" /\ error = "RuntimeError" => ~containerOpen
    /\ \A g \in Gens : gen[g].pc = "error" => ~containerOpen

(* C3: the k-th frame an iterator emits (from 0) carries index k. *)
C3_IndicesSequential ==
    \A g \in Gens : \A k \in 1..Len(gen[g].out) : gen[g].out[k].index = k - 1

C3_Witness ==
    \E g \in Gens :
        /\ Len(gen[g].out) >= 3
        /\ gen[g].out[3].index = 2
        /\ AudioIds(gen[g].decoded) # <<>>
        /\ ndemuxed > Len(gen[g].out)

(* C4: with use_limit and limit = L at most L frames are emitted: every
   emitted index is at most L - 1. *)
C4_AtMostLimitFrames ==
    use_limit =>
        \A g \in Gens :
            /\ Len(gen[g].out) <= limit
            /\ \A k \in 1..Len(gen[g].out) : gen[g].out[k].index <= limit - 1

(* C5: once the iterator has terminated, the attached audio lists of the
   emitted frames, concatenated in emission order, are the full sequence of
   audio sub-frames decoded from the container. *)
C5_AudioConcatComplete ==
    \A g \in Gens :
        gen[g].pc = "done" =>
            ConcatSnaps(gen[g].out) = AudioIds(gen[g].decoded)

(* C6: the audio attached to the k-th emitted frame is the audio decoded
   after the previous emitted frame and before this one, in arrival order
   (for the first frame: the audio decoded before it); after an emission the
   accumulator holds only the audio processed since, so it is empty right
   after the emission. *)
C6_AttachedAudioIsSegment ==
    \A g \in Gens :
        LET s == gen[g]
            segs == Split(Processed(s), <<>>)
        IN  /\ \A k \in 1..Len(s.out) : s.out[k].snap = segs[k]
            /\ s.pc \in {"demux", "decode", "done", "error"} =>
                lists[s.audio_arr] = segs[Len(segs)]
            /\ s.pc \in {"demux", "decode"} /\ Processed(s) # <<>>
                 /\ Processed(s)[Len(Processed(s))].stream = "video" =>
                lists[s.audio_arr] = <<>>

C6_Witness ==
    \E g \in Gens :
        /\ gen[g].pc = "demux"
        /\ Len(gen[g].out) >= 2
        /\ gen[g].out[1].snap # <<>>
        /\ gen[g].out[2].snap # <<>>
        /\ lists[gen[g].audio_arr] = <<>>

(* C7: the advertised length is the metadata-or-estimated frame count
   without a limit and the minimum of that count and the limit with
   use_limit; it is an integer >= 0. *)
C7_ExpectedLength ==
    node = "ready" =>
        LET count == FrameCount(meta, fps)
            len == frame_count[1]
        IN  /\ len \in Nat
            /\ ~use_limit => len = count
            /\ use_limit =>
                /\ len <= count
                /\ len <= limit
                /\ len = count \/ len = limit

C7_Witness ==
    /\ node = "ready"
    /\ use_limit
    /\ frame_count = <<limit>>
    /\ FrameCount(meta, fps) > limit

(* C8 as stated: the resolved rate is the first candidate that is not null,
   whatever its value. *)
C8_FirstNonNull ==
    node = "ready" =>
        \E k \in 1..5 :
            /\ Candidates(meta)[k] # None
            /\ \A j \in 1..(k - 1) : Candidates(meta)[j] = None
            /\ fps = Rounded(Candidates(meta)[k])

(* C8 as amended: the resolved rate is the first candidate, in the order
   framerate, rate, average rate, guessed rate, base rate, that is neither
   null nor zero. *)
C8_FirstNonZero ==
    node = "ready" /\ HasUsableRate(meta) =>
        \E k \in 1..5 :
            /\ Truthy(Candidates(meta)[k])
            /\ \A j \in 1..(k - 1) : ~Truthy(Candidates(meta)[j])
            /\ fps = Rounded(Candidates(meta)[k])

C8_Witness ==
    /\ node = "ready"
    /\ meta.framerate = <<0, 1>>
    /\ meta.rate = None
    /\ meta.average_rate = <<30000, 1001>>
    /\ meta.base_rate = <<24, 1>>
    /\ fps = <<2997>>

(* C9: setup either returns a strictly positive rate or, when no usable
   candidate exists, fails with the explicit "Failed to get video fps"
   RuntimeError. *)
C9_PositiveRateOrExplicitError ==
    /\ node = "ready" => fps[1] > 0
    /\ node = "raised" /\ meta.openable /\ ~HasUsableRate(meta)
         /\ meta.duration # None /\ meta.has_audio =>
        error = "RuntimeError"

(* C10: the frame count before capping is the encoded-frame count when that
   is present and non-zero, whether or not the duration is available, and
   floor(duration / 1000000 * rate) otherwise. *)
C10_CountBeforeCapping ==
    node # "init" /\ meta.openable /\ meta.has_audio /\ HasUsableRate(meta)
        /\ ~use_limit =>
        IF meta.encoded_frame_count # None /\ meta.encoded_frame_count[1] # 0
        THEN node = "ready" /\ frame_count = meta.encoded_frame_count
        ELSE meta.duration # None =>
                /\ node = "ready"
                /\ frame_count = <<EstimateFrames(meta.duration[1], fps[1])>>

(* C11: a packet without a decode timestamp is discarded undecoded: the
   step that pulls it leaves the index, the accumulator, the decoded frames
   and the emitted frames as they were, and the iterator stays in the packet
   loop. *)
C11_NoDtsPacketDiscarded ==
    [][\A g \in Gens :
        gen[g].pc = "demux" /\ ndemuxed' = ndemuxed + 1
            /\ ~gen'[g].packet.dts =>
            /\ gen'[g].pc = "demux"
            /\ gen'[g].index = gen[g].index
            /\ gen'[g].audio_arr = gen[g].audio_arr
            /\ gen'[g].decoded = gen[g].decoded
            /\ gen'[g].todo = gen[g].todo
            /\ gen'[g].out = gen[g].out
            /\ lists' = lists
            /\ naudio' = naudio]_vars

C11_Witness ==
    \E g \in Gens :
        /\ gen[g].pc = "demux"
        /\ gen[g].packet.stream # "none"
        /\ ~gen[g].packet.dts
        /\ gen[g].index >= 1
        /\ lists[gen[g].audio_arr] # <<>>

(* C12: with use_limit no audio is copied: every frame emitted then carries
   an empty attached-audio list. *)
C12_NoAudioUnderLimit ==
    use_limit =>
        \A g \in Gens : \A k \in 1..Len(gen[g].out) : gen[g].out[k].snap = <<>>

(* C13 as stated: with use_limit, once the limit-th frame has been emitted
   no further packet is pulled from the container. *)
C13_NoPullAfterLimit ==
    [][use_limit /\ (\E g \in Gens : Len(gen[g].out) >= limit) =>
        ndemuxed' = ndemuxed]_vars

(* C13 as amended: with use_limit, once the running index has reached the
   limit no further packet is decoded and no further frame is emitted: the
   iterator pulls packets only up to the first one that carries a decode
   timestamp (or the end of the stream), discards them undecoded and is
   Done (or fails in demux). *)
C13_NoDecodeAfterLimit ==
    [][\A g \in Gens :
        use_limit /\ gen[g].pc = "demux" /\ gen[g].index >= limit =>
            /\ gen'[g].pc \in {"demux", "done", "error"}
            /\ gen'[g].decoded = gen[g].decoded
            /\ gen'[g].out = gen[g].out
            /\ naudio' = naudio
            /\ lists' = lists
            /\ gen'[g].pc = "demux" /\ ndemuxed' # ndemuxed =>
                ~gen'[g].packet.dts
            /\ ndemuxed' # ndemuxed /\ gen'[g].packet.dts =>
                gen'[g].pc = "done"]_vars

C13_Witness ==
    \E g \in Gens :
        /\ use_limit
        /\ gen[g].pc = "done"
        /\ gen[g].index = limit
        /\ gen[g].packet.dts
        /\ gen[g].packet.stream = "video"
        /\ ndemuxed = Len(gen[g].out) + 2
        /\ Len(gen[g].decoded) = Len(gen[g].out)

(* C14: on the same packets, the run with use_limit emits a prefix of what
   the run without a limit emits: each emitted frame has the index and the
   attached audio of the frame at its position in the unlimited run. *)
C14_LimitedIsPrefix ==
    use_limit =>
        \A g \in Gens :
            LET ref == UnlimitedRun(gen[g].decoded, 0, <<>>)
            IN  /\ Len(gen[g].out) <= Len(ref)
                /\ \A k \in 1..Len(gen[g].out) :
                    /\ gen[g].out[k].index = ref[k].index
                    /\ gen[g].out[k].snap = ref[k].audio

C14_Witness ==
    \E g \in Gens :
        /\ use_limit
        /\ gen[g].pc = "done"
        /\ gen[g].index = limit
        /\ gen[g].packet.dts
        /\ ndemuxed > Len(gen[g].decoded)
        /\ Len(gen[g].out) = 2
        /\ gen[g].out[1].snap # <<>>

(* C15: a decode or demux failure ends the iteration: the step that hits it
   yields no element and leaves the emitted frames as they were, and an
   iterator that has failed never yields or changes again. *)
C15_FailureIsTerminal ==
    [][\A g \in Gens :
        /\ ndemuxed' # ndemuxed /\ gen[g].pc = "demux"
             /\ gen'[g].packet.decode_raised =>
                /\ gen'[g].pc = "error"
                /\ gen'[g].out = gen[g].out
                /\ gen'[g].decoded = gen[g].decoded
                /\ lists' = lists
        /\ gen'[g].pc = "error" /\ gen[g].pc # "error" =>
                /\ gen'[g].out = gen[g].out
                /\ lists' = lists
        /\ gen[g].pc = "error" => gen'[g] = gen[g]]_vars

C15_Witness ==
    \E g \in Gens :
        /\ gen[g].pc = "error"
        /\ gen[g].packet.decode_raised
        /\ Len(gen[g].out) >= 1
        /\ gen[g].out[1].snap # <<>>
        /\ lists[gen[g].audio_arr] # <<>>

(* C16: an open container is consumed by at most one iterator: no two
   generators obtained from the supplier pull packets from it. *)
C16_ExclusiveContainer ==
    Cardinality({g \in Gens : gen[g].packet.stream # "none"}) <= 1

(* C17: the iterator never changes a list it has yielded (audio decoded
   later is not appended to it), and what the consumer does to a yielded
   list never reaches a later frame: each yield hands out a list that no
   earlier frame carries, holding only the audio the iterator accumulated. *)
C17_YieldedListsNotShared ==
    [][\A g \in Gens :
        /\ gen' # gen =>
            \A k \in 1..Len(gen[g].out) :
                lists'[gen[g].out[k].audio] = lists[gen[g].out[k].audio]
        /\ Len(gen'[g].out) > Len(gen[g].out) =>
            LET r == gen'[g].out[Len(gen'[g].out)]
            IN  /\ r.snap = lists'[r.audio]
                /\ \A i \in 1..Len(r.snap) : r.snap[i] # 0
                /\ \A j \in 1..Len(gen[g].out) : gen[g].out[j].audio # r.audio]_vars

C17_Witness ==
    \E g \in Gens :
        /\ Len(gen[g].out) >= 2
        /\ lists[gen[g].out[1].audio] # gen[g].out[1].snap
        /\ gen[g].out[2].snap # <<>>
        /\ gen[g].pc = "demux"
        /\ lists[gen[g].audio_arr] # <<>>

(* C18: without use_limit the value of limit has no effect: the advertised
   frame count is the one every other limit value gives, the loop never
   stops at the limit (it is Done only when the container has no further
   packet), and the emitted frames are those of the loop body run without a
   limit on the frames decoded. *)
C18_LimitUnusedWithoutFlag ==
    [][~use_limit =>
        /\ node' = "ready" =>
            \A l \in 1..MaxLimit :
                frame_count' =
                    <<CapFrameCount(FrameCount(meta, fps'), use_limit, l)>>
        /\ \A g \in Gens :
            /\ gen[g].pc = "demux" /\ gen'[g].pc = "done" =>
                ndemuxed' = ndemuxed
            /\ LET ref == UnlimitedRun(Processed(gen'[g]), 0, <<>>)
               IN  /\ Len(gen'[g].out) = Len(ref)
                   /\ \A k \in 1..Len(ref) :
                        /\ gen'[g].out[k].index = ref[k].index
                        /\ gen'[g].out[k].snap = ref[k].audio]_vars

C18_Witness ==
    \E g \in Gens :
        /\ ~use_limit
        /\ limit < MaxLimit
        /\ gen[g].pc = "done"
        /\ Len(gen[g].out) > limit
        /\ gen[g].out[limit + 1].snap # <<>>
        /\ frame_count[1] > limit

(* C19: when the reported encoded-frame count is the number of video frames
   the container decodes to, the iterator emits no more frames than the
   advertised length, with or without a limit. *)
C19_EmittedWithinAdvertised ==
    \A g \in Gens :
        gen[g].pc = "done"
            /\ meta.encoded_frame_count =
                <<Len(SelectSeq(gen[g].decoded, LAMBDA f : f.stream = "video"))>>
        => Len(gen[g].out) <= frame_count[1]

(* C20: on a finite packet stream, with a consumer that keeps requesting,
   the iterator reaches Done or Error, and from then on yields nothing. *)
C20_EventuallyTerminal ==
    /\ (node = "ready") ~> (\A g \in Gens : gen[g].pc \in {"done", "error"})
    /\ [][\A g \in Gens :
            gen[g].pc \in {"done", "error"} =>
                /\ gen'[g].pc = gen[g].pc
                /\ gen'[g].out = gen[g].out]_vars

C20_Witness ==
    \E g \in Gens :
        /\ gen[g].pc = "done"
        /\ ndemuxed = MaxPackets
        /\ Len(gen[g].out) >= 2
        /\ ~gen[g].packet.dts

====
